---- MODULE Spec2Model ----
(***************************************************************************)
(* Weather-Predictor: the trend analyser and the temperature forecaster of *)
(* src/predictor.py (class WeatherPredictor).                              *)
(*                                                                         *)
(* Python floats are modelled as exact rationals [n, d] in lowest terms    *)
(* with d > 0; the float NaN is the record [n |-> 0, d |-> 0].  Rounding   *)
(* of IEEE-754 arithmetic is not modelled.                                 *)
(***************************************************************************)
EXTENDS Integers, Sequences, FiniteSets, TLC

VARIABLES
    df,            \* the forecast table handed to analyze_weather_patterns
    analysis,      \* the dict analyze_weather_patterns returned
    apc,           \* analyze_weather_patterns: "ready", "returned" or "raised"
    temperatures,  \* the list handed to predict_temperature_trend
    hours_ahead,   \* the horizon handed to predict_temperature_trend
    prediction,    \* what predict_temperature_trend returned
    ppc,           \* predict_temperature_trend: "ready", "returned" or "raised"
    fitted,        \* whether predict_temperature_trend called model.fit
    caught,        \* whether its except clause ran (and printed the error)
    now,           \* the wall clock of the cache, in seconds
    ticks,         \* how often the clock has advanced
    cache,         \* the st.cache_data stores: cache key -> entry
    api,           \* the last call of a fetch wrapper and what it returned
    view,          \* what the last run of display_main_weather did and showed
    session_state, \* st.session_state: main_city_data and comparison_cities_data
    rerun,         \* whether the last script run ended in st.rerun()
    page,          \* the widgets the last script run put on the page
    compared,      \* the cities the comparison section last displayed
    event,         \* the click that started the last script run, if any
    heap,          \* the tables and lists concurrent callers pass: name -> content
    calls          \* the calls of concurrent callers: their arguments and locals

coreVars == <<df, analysis, apc, temperatures, hours_ahead, prediction, ppc, fitted,
              caught>>
apiVars == <<now, ticks, cache, api>>
uiVars == <<view, session_state, rerun, page, compared, event>>
callVars == <<heap, calls>>
vars == <<coreVars, apiVars, uiVars, callVars>>

-----------------------------------------------------------------------------
(* Bounds of the model *)

MaxRows == 3
MaxLen == 4
MaxHorizon == 2
MaxTicks == 2

-----------------------------------------------------------------------------
(* Floats as exact rationals *)

Abs(i) == IF i < 0 THEN -i ELSE i

RECURSIVE GCD(_, _)
GCD(a, b) == IF b = 0 THEN a ELSE GCD(b, a % b)

Rat(num, den) ==
    LET s == IF den < 0 THEN -1 ELSE 1
        g == GCD(Abs(num), Abs(den))
    IN  [n |-> (s * num) \div g, d |-> (s * den) \div g]

FromInt(i) == [n |-> i, d |-> 1]
NaN == [n |-> 0, d |-> 0]
IsFinite(r) == r.d # 0

\* Common factors are taken out before multiplying, to keep the numbers small
RAdd(a, b) ==
    LET g == GCD(a.d, b.d)
    IN  Rat(a.n * (b.d \div g) + b.n * (a.d \div g), (a.d \div g) * b.d)
RSub(a, b) == RAdd(a, [n |-> -b.n, d |-> b.d])
RMul(a, b) ==
    LET g1 == GCD(Abs(a.n), b.d)
        g2 == GCD(Abs(b.n), a.d)
    IN  Rat((a.n \div g1) * (b.n \div g2), (a.d \div g2) * (b.d \div g1))
RDiv(a, b) == RMul(a, [n |-> IF b.n < 0 THEN -b.d ELSE b.d, d |-> Abs(b.n)])
RLt(a, b) == a.n * b.d < b.n * a.d
RLe(a, b) == a.n * b.d <= b.n * a.d
RSq(a) == RMul(a, a)

\* The sum of s[k..], added to acc from left to right; a sum that is no
\* longer a number stays as it is
RECURSIVE RSumFrom(_, _, _)
RSumFrom(s, k, acc) ==
    IF ~IsFinite(acc) \/ k > Len(s) THEN acc ELSE RSumFrom(s, k + 1, RAdd(acc, s[k]))
RSum(s) == RSumFrom(s, 1, FromInt(0))
RMean(s) == RDiv(RSum(s), FromInt(Len(s)))

RMax(s) == CHOOSE m \in {s[i] : i \in 1..Len(s)} : \A i \in 1..Len(s) : RLe(s[i], m)

-----------------------------------------------------------------------------
(* numpy and scikit-learn, as far as predict_temperature_trend uses them *)

\* np.arange(a, b): the integers a .. b-1, empty when b <= a
np_arange(a, b) == [i \in 1..(IF b > a THEN b - a ELSE 0) |-> FromInt(a + i - 1)]

AllFinite(s) == \A i \in 1..Len(s) : IsFinite(s[i])

\* (mutant: a fit without intercept, as with fit_intercept=False)
LinearRegression_fit_origin(X, y) ==
    IF Len(X) = 0 \/ ~AllFinite(y)
    THEN [raised |-> TRUE, coef_ |-> NaN, intercept_ |-> NaN]
    ELSE LET sxx == RSum([i \in 1..Len(X) |-> RSq(X[i])])
             sxy == RSum([i \in 1..Len(X) |-> RMul(X[i], y[i])])
         IN  [raised |-> FALSE,
              coef_ |-> IF sxx.n = 0 THEN FromInt(0) ELSE RDiv(sxy, sxx),
              intercept_ |-> FromInt(0)]

\* LinearRegression().fit(X, y): input validation (at least one sample, no NaN)
\* raises ValueError; otherwise the least-squares line through the centred data.
LinearRegression_fit(X, y) ==
    IF Len(X) = 0 \/ ~AllFinite(y)
    THEN [raised |-> TRUE, coef_ |-> NaN, intercept_ |-> NaN]
    ELSE LET xm == RMean(X)
             ym == RMean(y)
             sxx == RSum([i \in 1..Len(X) |-> RSq(RSub(X[i], xm))])
             sxy == RSum([i \in 1..Len(X) |-> RMul(RSub(X[i], xm), RSub(y[i], ym))])
             coef == IF sxx.n = 0 THEN FromInt(0) ELSE RDiv(sxy, sxx)
         IN  [raised |-> FALSE, coef_ |-> coef,
              intercept_ |-> RSub(ym, RMul(coef, xm))]

\* (mutant: the intercept left out of the prediction)
LinearRegression_predict_nointercept(model, X) ==
    IF Len(X) = 0
    THEN [raised |-> TRUE, values |-> <<>>]
    ELSE [raised |-> FALSE,
          values |-> [i \in 1..Len(X) |-> RMul(model.coef_, X[i])]]

\* model.predict(X): raises ValueError on an array with 0 samples
LinearRegression_predict(model, X) ==
    IF Len(X) = 0
    THEN [raised |-> TRUE, values |-> <<>>]
    ELSE [raised |-> FALSE,
          values |-> [i \in 1..Len(X) |->
                         RAdd(model.intercept_, RMul(model.coef_, X[i]))]]

\* (mutant: a zero total sum of squares always scored 0.0)
r2_score_zero(y_true, y_pred) ==
    LET ym == RMean(y_true)
        numerator == RSum([i \in 1..Len(y_true) |-> RSq(RSub(y_true[i], y_pred[i]))])
        denominator == RSum([i \in 1..Len(y_true) |-> RSq(RSub(y_true[i], ym))])
    IN  IF denominator.n # 0 THEN RSub(FromInt(1), RDiv(numerator, denominator))
        ELSE FromInt(0)

\* sklearn.metrics.r2_score(y_true, y_pred): 1 - RSS/TSS; with a zero TSS,
\* 1.0 when the residuals are zero as well and 0.0 otherwise
r2_score(y_true, y_pred) ==
    LET ym == RMean(y_true)
        numerator == RSum([i \in 1..Len(y_true) |-> RSq(RSub(y_true[i], y_pred[i]))])
        denominator == RSum([i \in 1..Len(y_true) |-> RSq(RSub(y_true[i], ym))])
    IN  IF denominator.n # 0 THEN RSub(FromInt(1), RDiv(numerator, denominator))
        ELSE IF numerator.n = 0 THEN FromInt(1)
        ELSE FromInt(0)

\* (mutant: the line scored at the extrapolated indices)
LinearRegression_score_future(model, X, y) ==
    r2_score(y, LinearRegression_predict(model,
                    [i \in 1..Len(X) |-> RAdd(X[i], FromInt(Len(X)))]).values)

\* model.score(X, y)
LinearRegression_score(model, X, y) ==
    r2_score(y, LinearRegression_predict(model, X).values)

-----------------------------------------------------------------------------
(* WeatherPredictor.predict_temperature_trend *)

\* return [], 0.0
NoPrediction == [predictions |-> <<>>, confidence |-> FromInt(0)]

\* (mutant: future_X = np.arange(len(temperatures), hours_ahead))
TryFit_nooffset(temps, h) ==
    LET X == np_arange(0, Len(temps))
        y == temps
        model == LinearRegression_fit(X, y)
        future_X == np_arange(Len(temps), h)
        predicted == LinearRegression_predict(model, future_X)
    IN  IF model.raised \/ predicted.raised
        THEN [raised |-> TRUE, fitted |-> TRUE, result |-> NoPrediction]
        ELSE [raised |-> FALSE, fitted |-> TRUE,
              result |-> [predictions |-> predicted.values,
                          confidence |-> LinearRegression_score(model, X, y)]]

\* the body of the try block, lines 14-23
TryFit(temps, h) ==
    LET X == np_arange(0, Len(temps))
        y == temps
        model == LinearRegression_fit(X, y)
        future_X == np_arange(Len(temps), Len(temps) + h)
        predicted == LinearRegression_predict(model, future_X)
    IN  IF model.raised \/ predicted.raised
        THEN [raised |-> TRUE, fitted |-> TRUE, result |-> NoPrediction]
        ELSE [raised |-> FALSE, fitted |-> TRUE,
              result |-> [predictions |-> predicted.values,
                          confidence |-> LinearRegression_score(model, X, y)]]

\* (mutant: the length guard off by one)
predict_temperature_trend_lt2(temps, h) ==
    IF Len(temps) < 2
    THEN [raised |-> FALSE, fitted |-> FALSE, caught |-> FALSE,
          result |-> NoPrediction]
    ELSE LET t == TryFit(temps, h)
         IN  IF t.raised
             THEN [raised |-> FALSE, fitted |-> t.fitted, caught |-> TRUE,
                   result |-> NoPrediction]
             ELSE [raised |-> FALSE, fitted |-> t.fitted, caught |-> FALSE,
                   result |-> t.result]

\* (mutant: no except clause, the exception leaves the function)
predict_temperature_trend_noexcept(temps, h) ==
    IF Len(temps) < 3
    THEN [raised |-> FALSE, fitted |-> FALSE, caught |-> FALSE,
          result |-> NoPrediction]
    ELSE LET t == TryFit(temps, h)
         IN  [raised |-> t.raised, fitted |-> t.fitted, caught |-> FALSE,
              result |-> t.result]

\* the whole function: the length guard, the try block and its except clause.
\* raised: an exception leaves the function; fitted: model.fit was called;
\* caught: the except clause ran.
predict_temperature_trend(temps, h) ==
    IF Len(temps) < 3
    THEN [raised |-> FALSE, fitted |-> FALSE, caught |-> FALSE,
          result |-> NoPrediction]
    ELSE LET t == TryFit(temps, h)
         IN  IF t.raised
             THEN [raised |-> FALSE, fitted |-> t.fitted, caught |-> TRUE,
                   result |-> NoPrediction]
             ELSE [raised |-> FALSE, fitted |-> t.fitted, caught |-> FALSE,
                   result |-> t.result]

-----------------------------------------------------------------------------
(* pandas, as far as analyze_weather_patterns uses it *)

\* df[c]: one column of the table, in row order
Column(d, c) == [i \in 1..Len(d) |-> d[i][c]]

\* The weather_main values of the model, in the order Python sorts strings
CondNames == <<"Clear", "Clouds", "Rain">>
Rank(c) == CHOOSE i \in 1..Len(CondNames) : CondNames[i] = c
StrLe(a, b) == Rank(a) <= Rank(b)

RECURSIVE SortedSeq(_)
SortedSeq(S) ==
    IF S = {} THEN <<>>
    ELSE LET m == CHOOSE x \in S : \A y \in S : StrLe(x, y)
         IN  <<m>> \o SortedSeq(S \ {m})

Count(s, v) == Cardinality({i \in 1..Len(s) : s[i] = v})

\* Series.mean() and Series.max()
Series_mean(s) == RMean(s)
\* (mutant: the last value, as if the column were sorted)
Series_max_last(s) == s[Len(s)]
Series_max(s) == RMax(s)

\* (mutant: count() in place of nunique())
Series_nunique_count(s) == Len(s)

\* Series.nunique(): the number of distinct values
Series_nunique(s) == Cardinality({s[i] : i \in 1..Len(s)})

RECURSIVE Distinct(_)
Distinct(s) ==
    IF s = <<>> THEN <<>>
    ELSE LET r == Distinct(SubSeq(s, 1, Len(s) - 1))
         IN  IF \E i \in 1..Len(r) : r[i] = s[Len(s)] THEN r ELSE Append(r, s[Len(s)])

\* (mutant: the values of maximal count in order of first appearance, unsorted)
Series_mode_unsorted(s) ==
    SelectSeq(Distinct(s), LAMBDA v : \A j \in 1..Len(s) : Count(s, s[j]) <= Count(s, v))

\* Series.mode(): the values of maximal count, sorted
Series_mode(s) ==
    SortedSeq({v \in {s[i] : i \in 1..Len(s)} :
                  \A j \in 1..Len(s) : Count(s, s[j]) <= Count(s, v)})

-----------------------------------------------------------------------------
(* WeatherPredictor.analyze_weather_patterns *)

TrendThreshold == 2

\* (mutant: the thresholds taken inclusively)
temp_trend_inclusive(d) ==
    LET temp_diff == RSub(Column(d, "temperature")[Len(d)], Column(d, "temperature")[1])
    IN  IF RLe(FromInt(TrendThreshold), temp_diff) THEN "warming"
        ELSE IF RLe(temp_diff, FromInt(-TrendThreshold)) THEN "cooling"
        ELSE "stable"

\* lines 33-38
temp_trend(d) ==
    LET temp_diff == RSub(Column(d, "temperature")[Len(d)], Column(d, "temperature")[1])
    IN  IF RLt(FromInt(TrendThreshold), temp_diff) THEN "warming"
        ELSE IF RLt(temp_diff, FromInt(-TrendThreshold)) THEN "cooling"
        ELSE "stable"

\* line 46
dominant_weather(d) == Series_mode(Column(d, "weather_main"))[1]

\* the dict built by lines 31-48, for a table with at least one row
analyze_weather_patterns(d) ==
    [temp_trend       |-> temp_trend(d),
     rain_likelihood  |-> Series_mean(Column(d, "pop")),
     max_rain_prob    |-> Series_max(Column(d, "pop")),
     weather_types    |-> Series_nunique(Column(d, "weather_main")),
     dominant_weather |-> dominant_weather(d)]

-----------------------------------------------------------------------------
(* Python values of the fetch layer *)

None == [none |-> TRUE]

\* Python's None, a list, an int and a str as values that compare by type
PyNone == [kind |-> "None"]
PyList(items) == [kind |-> "list", items |-> items]
PyInt(i) == [t |-> "int", v |-> i]
PyStr(i) == [t |-> "str", v |-> i]
NoCod == [t |-> "NoneType", v |-> 0]

-----------------------------------------------------------------------------
(* config.py, city_search.py and weather_api.py *)

CACHE_DURATION == 300
GEOCODING_CACHE_DURATION == 3600

\* The places of the model, as the geocoding service lists them
Springfield_IL == [name |-> "Springfield", state |-> "Illinois", country |-> "US",
                   lat |-> Rat(398, 10), lon |-> Rat(-896, 10)]
Springfield_MO == [name |-> "Springfield", state |-> "Missouri", country |-> "US",
                   lat |-> Rat(372, 10), lon |-> Rat(-933, 10)]
Colombo == [name |-> "Colombo", country |-> "LK",
            lat |-> Rat(69, 10), lon |-> Rat(799, 10)]
NoName == [country |-> "LK", lat |-> Rat(69, 10), lon |-> Rat(799, 10)]
Places == {Springfield_IL, Springfield_MO, Colombo}
Coord(c) == [lat |-> c.lat, lon |-> c.lon]
Queries == {"Springfield", "Colombo"}
SearchLimit == 8

\* What requests.get can bring back: it raises, or answers with a status and
\* a body that is JSON (a dict or a list) or is not
ConnectionError == [error |-> TRUE]
Http(status, body) == [error |-> FALSE, status |-> status, body |-> body]
NotJson == [kind |-> "notjson"]
WeatherJson(cod) == [kind |-> "dict", cod |-> cod]
WeatherResponses ==
    {ConnectionError, Http(404, WeatherJson(PyStr(404))), Http(200, NotJson),
     Http(200, PyList(<<>>))}
    \cup {Http(200, WeatherJson(c)) : c \in {PyInt(200), PyStr(200), PyInt(404), NoCod}}
Listing(q) ==
    IF q = "Springfield" THEN <<Springfield_IL, Springfield_MO>>
    ELSE IF q = "Colombo" THEN <<Colombo>>
    ELSE <<>>
SearchResponses(q) ==
    {ConnectionError, Http(401, WeatherJson(PyInt(401))), Http(200, NotJson),
     Http(200, PyList(<<>>)), Http(200, PyList(<<NoName>>)),
     Http(200, PyList(Listing(q)))}

\* requests.get, raise_for_status and response.json(): the decoded body, or
\* an exception
FetchJson(resp) ==
    IF resp.error \/ resp.status >= 400 \/ resp.body.kind = "notjson"
    THEN [raised |-> TRUE, data |-> PyNone]
    ELSE [raised |-> FALSE, data |-> resp.body]

\* (mutant: the try block without its except clause)
WeatherBody_noexcept(resp, success) ==
    LET r == FetchJson(resp)
    IN  IF r.raised \/ r.data.kind # "dict"
        THEN [raised |-> TRUE, value |-> PyNone, requested |-> TRUE]
        ELSE IF r.data.cod # success
        THEN [raised |-> FALSE, value |-> PyNone, requested |-> TRUE]
        ELSE [raised |-> FALSE, value |-> r.data, requested |-> TRUE]

\* The body both weather wrappers share (weather_api.py:14-26 and 31-43):
\* data.get on a list raises AttributeError, which the except clause catches
\* like every other exception of the try block
WeatherBody(resp, success) ==
    LET r == FetchJson(resp)
    IN  IF r.raised \/ r.data.kind # "dict"
        THEN [raised |-> FALSE, value |-> PyNone, requested |-> TRUE]
        ELSE IF r.data.cod # success
        THEN [raised |-> FALSE, value |-> PyNone, requested |-> TRUE]
        ELSE [raised |-> FALSE, value |-> r.data, requested |-> TRUE]

get_current_weather(resp) == WeatherBody(resp, PyInt(200))
get_forecast(resp) == WeatherBody(resp, PyStr(200))

\* CitySearchEngine._format_city_name: the parts joined with ", "
format_city_name(city) ==
    IF "state" \in DOMAIN city /\ city.state # "" /\ city.state # city.name
    THEN <<city.name, city.state, city.country>>
    ELSE <<city.name, city.country>>

city_info(city) ==
    [name |-> city.name, country |-> city.country,
     state |-> IF "state" \in DOMAIN city THEN city.state ELSE "",
     lat |-> city.lat, lon |-> city.lon,
     display_name |-> format_city_name(city)]

\* CitySearchEngine.search_cities without its cache
search_cities(query, resp) ==
    IF Len(query) < 2
    THEN [raised |-> FALSE, value |-> PyList(<<>>), requested |-> FALSE]
    ELSE LET r == FetchJson(resp)
         IN  IF \/ r.raised
                \/ r.data.kind # "list"
                \/ \E i \in 1..Len(r.data.items) : "name" \notin DOMAIN r.data.items[i]
             THEN [raised |-> FALSE, value |-> PyList(<<>>), requested |-> TRUE]
             ELSE [raised |-> FALSE, requested |-> TRUE,
                   value |-> PyList([i \in 1..Len(r.data.items) |->
                                        city_info(r.data.items[i])])]

\* The cache keys: the decorated function and its hashed arguments
WeatherKey(fn, c) == [fn |-> fn, args |-> Coord(c)]
SearchKey(q) == [fn |-> "search_cities", args |-> [query |-> q, limit |-> SearchLimit]]
CacheKeys ==
    {WeatherKey(fn, c) : fn \in {"get_current_weather", "get_forecast"}, c \in Places}
    \cup {SearchKey(q) : q \in Queries}
EmptyCache == [k \in CacheKeys |-> None]

\* (mutant: one ttl for every decorated function)
TTL_same(fn) == CACHE_DURATION

\* the ttl of @st.cache_data on each function
TTL(fn) == IF fn = "search_cities" THEN GEOCODING_CACHE_DURATION ELSE CACHE_DURATION

\* an entry is served until its age reaches the ttl
CacheValid(c, k, t) == c[k] # None /\ t - c[k].stored < TTL(k.fn)

\* (mutant: a None the function returns is not stored)
st_cache_data_skip_none(c, k, t, run) ==
    IF CacheValid(c, k, t)
    THEN [raised |-> FALSE, value |-> c[k].value, requested |-> FALSE, cache |-> c]
    ELSE IF run.raised
    THEN [raised |-> TRUE, value |-> PyNone, requested |-> run.requested, cache |-> c]
    ELSE [raised |-> FALSE, value |-> run.value, requested |-> run.requested,
          cache |-> IF run.value = PyNone THEN c
                    ELSE [c EXCEPT ![k] = [value |-> run.value, stored |-> t]]]

\* @st.cache_data(ttl=...): a valid entry is returned without running the
\* function; otherwise the function runs and what it returns is stored, and
\* an exception it raises is stored nowhere and leaves the call
st_cache_data(c, k, t, run) ==
    IF CacheValid(c, k, t)
    THEN [raised |-> FALSE, value |-> c[k].value, requested |-> FALSE, cache |-> c]
    ELSE IF run.raised
    THEN [raised |-> TRUE, value |-> PyNone, requested |-> run.requested, cache |-> c]
    ELSE [raised |-> FALSE, value |-> run.value, requested |-> run.requested,
          cache |-> [c EXCEPT ![k] = [value |-> run.value, stored |-> t]]]

ApiIdle == now = 0 /\ ticks = 0 /\ cache = EmptyCache /\ api = None
\* a key st.session_state does not hold
Absent == [kind |-> "absent"]
NewSession == [main_city_data |-> Absent, comparison_cities_data |-> Absent]
UiIdle ==
    /\ view = None
    /\ session_state = NewSession
    /\ rerun = FALSE
    /\ page = {}
    /\ compared = None
    /\ event = [type |-> "none"]

\* No concurrent callers
CallsIdle ==
    /\ heap = <<>>
    /\ calls = <<>>

-----------------------------------------------------------------------------
(* The inputs the model draws *)

SeqsUpTo(S, k) == UNION {[1..m -> S] : m \in 0..k}

DfTemps == {FromInt(0), FromInt(2), Rat(201, 100)}
DfPops == {FromInt(10), FromInt(50), FromInt(90)}
Rows == [temperature : DfTemps, pop : DfPops,
         weather_main : {CondNames[i] : i \in 1..Len(CondNames)}]
Frames == SeqsUpTo(Rows, MaxRows)

TempVals == {FromInt(0), FromInt(1), FromInt(2), FromInt(3), NaN}
TempLists == SeqsUpTo(TempVals, MaxLen)
\* the horizon the function defaults to, and the one main.py passes
DefaultHoursAhead == 24
DisplayHoursAhead == 8
Horizons == (-1..MaxHorizon) \cup {DisplayHoursAhead, DefaultHoursAhead}

-----------------------------------------------------------------------------
(* A caller of analyze_weather_patterns *)

InitAnalyze ==
    /\ df \in Frames
    /\ analysis = None
    /\ apc = "ready"
    /\ temperatures = <<>>
    /\ hours_ahead = 0
    /\ prediction = None
    /\ ppc = "ready"
    /\ fitted = FALSE
    /\ caught = FALSE
    /\ ApiIdle
    /\ UiIdle
    /\ CallsIdle

\* One call.  On an empty table df['temperature'].iloc[-1] (line 34) raises
\* IndexError, which nothing in the function catches.
AnalyzeWeatherPatterns ==
    /\ apc = "ready"
    /\ IF Len(df) = 0
       THEN apc' = "raised" /\ analysis' = analysis
       ELSE apc' = "returned" /\ analysis' = analyze_weather_patterns(df)
    /\ UNCHANGED <<df, temperatures, hours_ahead, prediction, ppc, fitted, caught>>
    /\ UNCHANGED apiVars
    /\ UNCHANGED uiVars
    /\ UNCHANGED callVars

NextAnalyze == AnalyzeWeatherPatterns

SpecAnalyze == InitAnalyze /\ [][NextAnalyze]_vars

-----------------------------------------------------------------------------
(* A caller of predict_temperature_trend *)

InitPredict ==
    /\ temperatures \in TempLists
    /\ hours_ahead \in Horizons
    /\ prediction = None
    /\ ppc = "ready"
    /\ fitted = FALSE
    /\ caught = FALSE
    /\ df = <<>>
    /\ analysis = None
    /\ apc = "ready"
    /\ ApiIdle
    /\ UiIdle
    /\ CallsIdle

PredictTemperatureTrend ==
    /\ ppc = "ready"
    /\ LET r == predict_temperature_trend(temperatures, hours_ahead)
       IN  /\ prediction' = r.result
           /\ fitted' = r.fitted
           /\ caught' = r.caught
           /\ ppc' = IF r.raised THEN "raised" ELSE "returned"
    /\ UNCHANGED <<temperatures, hours_ahead, df, analysis, apc>>
    /\ UNCHANGED apiVars
    /\ UNCHANGED uiVars
    /\ UNCHANGED callVars

NextPredict == PredictTemperatureTrend

SpecPredict == InitPredict /\ [][NextPredict]_vars

-----------------------------------------------------------------------------
(* The fetch wrappers behind their caches, called as the clock advances *)

CoreIdle ==
    /\ df = <<>>
    /\ analysis = None
    /\ apc = "ready"
    /\ temperatures = <<>>
    /\ hours_ahead = 0
    /\ prediction = None
    /\ ppc = "ready"
    /\ fitted = FALSE
    /\ caught = FALSE

InitApi == CoreIdle /\ ApiIdle /\ UiIdle /\ CallsIdle

\* The clock moves to just before, or onto, the end of a cache window
TickSteps == {CACHE_DURATION - 1, 1, GEOCODING_CACHE_DURATION - 1}

Tick ==
    /\ ticks < MaxTicks
    /\ \E d \in TickSteps : now' = now + d
    /\ ticks' = ticks + 1
    /\ UNCHANGED <<cache, api>>
    /\ UNCHANGED coreVars
    /\ UNCHANGED uiVars
    /\ UNCHANGED callVars

\* The record of a call: its cache key, what the caller got, whether an
\* exception reached the caller, and the upstream request it made, if any
ApiRecord(k, r, resp) ==
    [key |-> k, result |-> r.value, raised |-> r.raised, requested |-> r.requested,
     response |-> IF r.requested THEN resp ELSE None]

GetCurrentWeather ==
    \E resp \in WeatherResponses :
        LET k == WeatherKey("get_current_weather", Colombo)
            r == st_cache_data(cache, k, now, get_current_weather(resp))
        IN  /\ cache' = r.cache
            /\ api' = ApiRecord(k, r, resp)
            /\ UNCHANGED <<now, ticks>>
            /\ UNCHANGED coreVars
            /\ UNCHANGED uiVars
            /\ UNCHANGED callVars

GetForecast ==
    \E resp \in WeatherResponses :
        LET k == WeatherKey("get_forecast", Colombo)
            r == st_cache_data(cache, k, now, get_forecast(resp))
        IN  /\ cache' = r.cache
            /\ api' = ApiRecord(k, r, resp)
            /\ UNCHANGED <<now, ticks>>
            /\ UNCHANGED coreVars
            /\ UNCHANGED uiVars
            /\ UNCHANGED callVars

SearchCities ==
    \E resp \in SearchResponses("Springfield") :
        LET k == SearchKey("Springfield")
            r == st_cache_data(cache, k, now, search_cities("Springfield", resp))
        IN  /\ cache' = r.cache
            /\ api' = ApiRecord(k, r, resp)
            /\ UNCHANGED <<now, ticks>>
            /\ UNCHANGED coreVars
            /\ UNCHANGED uiVars
            /\ UNCHANGED callVars

NextApi == Tick \/ GetCurrentWeather \/ GetForecast \/ SearchCities

SpecApi == InitApi /\ [][NextApi]_vars

-----------------------------------------------------------------------------
(* data_processor.py: WeatherProcessor *)

Min(a, b) == IF a < b THEN a ELSE b

\* round(x, 1): the nearest tenth, a tie going to the even tenth
round1(x) ==
    IF x.d = 0 THEN x
    ELSE LET q == (10 * x.n) \div x.d
             r == (10 * x.n) % x.d
             up == 2 * r > x.d \/ (2 * r = x.d /\ q % 2 = 1)
         IN  Rat(IF up THEN q + 1 ELSE q, 10)

\* dt_txt, 'YYYY-mm-dd HH:MM:SS', as its day and hour; the datetime strptime
\* makes of it as the hours since day 0
strptime(txt) == 24 * txt.day + txt.hour

\* (mutant: the fraction kept as it came)
forecast_row_fraction(item) ==
    [datetime     |-> strptime(item.dt_txt),
     temperature  |-> round1(item.temp),
     weather_main |-> item.weather_main,
     pop          |-> IF "pop" \in DOMAIN item THEN item.pop ELSE FromInt(0)]

\* lines 36-47, the columns the predictor and the prediction display read
forecast_row(item) ==
    [datetime     |-> strptime(item.dt_txt),
     temperature  |-> round1(item.temp),
     weather_main |-> item.weather_main,
     pop          |-> RMul(IF "pop" \in DOMAIN item THEN item.pop ELSE FromInt(0),
                           FromInt(100))]

\* lines 31-49: data['list'] raises KeyError when the key is missing
process_forecast_data(data) ==
    IF "list" \notin DOMAIN data
    THEN [raised |-> TRUE, value |-> <<>>]
    ELSE [raised |-> FALSE,
          value |-> [i \in 1..Len(data.list) |-> forecast_row(data.list[i])]]

\* lines 7-28: data['name'] and the other subscripts raise KeyError on a
\* payload that lacks them
process_current_weather(data) ==
    IF "name" \notin DOMAIN data
    THEN [raised |-> TRUE, value |-> None]
    ELSE [raised |-> FALSE,
          value |-> [city |-> data.name, country |-> data.country,
                     coordinates |-> data.coord]]

-----------------------------------------------------------------------------
(* main.py: display_main_weather and display_temperature_prediction *)

HeadRows == 12
LastIndex == 11
FirstOffset == 3

\* (mutant: no truncation)
head_all(s, k) == s

\* Series.head(k)
head(s, k) == SubSeq(s, 1, Min(k, Len(s)))

\* lines 258-263
confidence_label(confidence) ==
    IF RLt(Rat(8, 10), confidence) THEN "high"
    ELSE IF RLt(Rat(6, 10), confidence) THEN "moderate"
    ELSE "low"

\* lines 220-265, given the samples fed to the forecaster and what it
\* returned.  df['datetime'].iloc[11] (line 222) raises IndexError on a table
\* of fewer than 12 rows, before the chart and the label are shown.
prediction_display(d, temps, predictions, confidence) ==
    IF predictions # <<>>
    THEN IF Len(d) < LastIndex + 1
         THEN [raised |-> TRUE, fed |-> temps, horizon |-> DisplayHoursAhead,
               predictions |-> predictions, confidence |-> confidence,
               prediction_times |-> <<>>, label |-> "none"]
         ELSE [raised |-> FALSE, fed |-> temps, horizon |-> DisplayHoursAhead,
               predictions |-> predictions, confidence |-> confidence,
               prediction_times |->
                   [i \in 1..DisplayHoursAhead |->
                       d[LastIndex + 1].datetime + (i - 1) + FirstOffset],
               label |-> confidence_label(confidence)]
    ELSE [raised |-> FALSE, fed |-> temps, horizon |-> DisplayHoursAhead,
          predictions |-> <<>>, confidence |-> confidence,
          prediction_times |-> <<>>, label |-> "unable"]

\* lines 217-218: the first 12 temperatures go to the forecaster, horizon 8
forecast_of(d, temps, r) ==
    prediction_display(d, temps, r.predictions, r.confidence)

\* lines 212-267
display_temperature_prediction(d) ==
    forecast_of(d, head(Column(d, "temperature"), HeadRows),
                predict_temperature_trend(head(Column(d, "temperature"), HeadRows),
                                          DisplayHoursAhead).result)

NotPredicted ==
    [raised |-> FALSE, fed |-> <<>>, horizon |-> 0, predictions |-> <<>>,
     confidence |-> FromInt(0), prediction_times |-> <<>>, label |-> "none"]

\* analyze_weather_patterns as display_main_weather calls it: on a table
\* without rows df['temperature'] (predictor.py:34) raises
analyze_call(d) ==
    IF Len(d) = 0
    THEN [raised |-> TRUE, value |-> None]
    ELSE [raised |-> FALSE, value |-> analyze_weather_patterns(d)]

\* lines 187-210: the second request, by city name, with its own try/except
fallback(alt) ==
    IF alt.error THEN "fallback_failed"
    ELSE IF alt.status # 200 THEN "fallback_status"
    ELSE IF alt.body.kind # "dict" \/ process_current_weather(alt.body).raised
    THEN "fallback_failed"
    ELSE "fallback_shown"

\* (mutant: the try block of display_main_weather without its except clause)
except_Exception_absent(v, raiser, alt) ==
    [v EXCEPT !.error = raiser, !.branch = "crashed", !.escaped = TRUE]

\* lines 178-210: the error is shown and the fallback tried
except_Exception(v, raiser, alt) ==
    [v EXCEPT !.error = raiser, !.branch = fallback(alt)]

\* line 176, the last step of the try block: v is the run so far, tp what
\* display_temperature_prediction did
step_prediction(v, tp, alt) ==
    IF tp.raised
    THEN except_Exception([v EXCEPT !.predicted = TRUE, !.prediction = tp],
                          "display_temperature_prediction", alt)
    ELSE [v EXCEPT !.predicted = TRUE, !.prediction = tp, !.branch = "shown"]

\* lines 168-173: wa is what analyze_weather_patterns did; then the three
\* display components render
step_analysis(v, wa, alt) ==
    IF wa.raised
    THEN except_Exception([v EXCEPT !.analysed = TRUE], "analyze_weather_patterns", alt)
    ELSE step_prediction([v EXCEPT !.analysed = TRUE, !.weather_analysis = wa.value,
                                   !.rendered = TRUE],
                         display_temperature_prediction(v.forecast_df), alt)

\* line 167: fd is what process_forecast_data did
step_forecast(v, fd, alt) ==
    IF fd.raised
    THEN except_Exception([v EXCEPT !.processed = TRUE], "process_forecast_data", alt)
    ELSE step_analysis([v EXCEPT !.processed = TRUE, !.forecast_df = fd.value],
                       analyze_call(fd.value), alt)

\* line 166: cw is what process_current_weather did
step_current(v, cw, alt) ==
    IF cw.raised
    THEN except_Exception(v, "process_current_weather", alt)
    ELSE step_forecast(v, process_forecast_data(v.forecast_data), alt)

\* The record of a run: what it was given, what it called and showed
NoView(current_data, forecast_data) ==
    [current_data |-> current_data, forecast_data |-> forecast_data,
     processed |-> FALSE, analysed |-> FALSE, predicted |-> FALSE,
     rendered |-> FALSE, forecast_df |-> <<>>, weather_analysis |-> None,
     prediction |-> NotPredicted, error |-> "", branch |-> "", escaped |-> FALSE]

\* (mutant: the two early returns of lines 149-163 left out)
display_main_weather_unguarded(current_data, forecast_data, alt) ==
    step_current(NoView(current_data, forecast_data),
                 process_current_weather(current_data), alt)

\* lines 135-210, given what the two fetches returned and what the fallback
\* request would bring back
display_main_weather(current_data, forecast_data, alt) ==
    IF current_data = PyNone
    THEN [NoView(current_data, forecast_data) EXCEPT !.branch = "no_current"]
    ELSE IF forecast_data = PyNone
    THEN [NoView(current_data, forecast_data) EXCEPT !.branch = "no_forecast"]
    ELSE step_current(NoView(current_data, forecast_data),
                      process_current_weather(current_data), alt)

-----------------------------------------------------------------------------
(* One session showing the weather of Colombo *)

MaxItems == 3

\* The i-th entry of a forecast: entries are three hours apart
StampAt(i) == [day |-> (3 * (i - 1)) \div 24, hour |-> (3 * (i - 1)) % 24]
ItemKinds == {[temp |-> FromInt(0), weather_main |-> "Clear"],
              [temp |-> Rat(206, 100), weather_main |-> "Rain"]}
ItemsAt(i) ==
    {[dt_txt |-> StampAt(i), temp |-> k.temp, weather_main |-> k.weather_main] :
        k \in ItemKinds}
    \cup {[dt_txt |-> StampAt(i), temp |-> k.temp, weather_main |-> k.weather_main,
           pop |-> Rat(1, 2)] : k \in ItemKinds}
RECURSIVE ListsOfLen(_)
ListsOfLen(m) ==
    IF m = 0 THEN {<<>>}
    ELSE {Append(l, x) : l \in ListsOfLen(m - 1), x \in ItemsAt(m)}
ShortLists == UNION {ListsOfLen(m) : m \in 0..MaxItems}

\* Forecasts of 12 and 13 entries, from their temperatures in tenths of a
\* degree; every fourth entry has no pop field
Tenths(ts) ==
    [i \in 1..Len(ts) |->
        IF i % 4 = 0
        THEN [dt_txt |-> StampAt(i), temp |-> Rat(ts[i], 10), weather_main |-> "Clouds"]
        ELSE [dt_txt |-> StampAt(i), temp |-> Rat(ts[i], 10), weather_main |-> "Clouds",
              pop |-> Rat(i, 20)]]
LongLists ==
    {Tenths(<<0, 5, 10, 15, 20, 25, 30, 35, 40, 45, 50, 55>>),
     Tenths(<<0, 5, 10, 15, 20, 25, 30, 35, 40, 45, 50, 55, 0>>),
     Tenths(<<4, 10, 0, 10, 9, 26, 33, 20, 22, 45, 36, 49>>),
     Tenths(<<7, 11, 0, 22, 19, 13, 34, 35, 25, 23, 51, 30>>),
     Tenths(<<0, 9, 9, 0, 0, 9, 9, 0, 0, 9, 9, 0>>),
     Tenths(<<7, 7, 7, 7, 7, 7, 7, 7, 7, 7, 7, 7>>)}
ForecastLists == ShortLists \cup LongLists

CurrentJsonOf(c) ==
    [kind |-> "dict", cod |-> PyInt(200), name |-> c.name, country |-> c.country,
     coord |-> Coord(c)]
CurrentJson == CurrentJsonOf(Colombo)
ForecastJson(l) == [kind |-> "dict", cod |-> PyStr(200), list |-> l]
CurrentResponses ==
    {ConnectionError, Http(200, WeatherJson(PyInt(200))), Http(200, CurrentJson)}
ForecastResponses ==
    {ConnectionError, Http(200, WeatherJson(PyStr(200)))}
    \cup {Http(200, ForecastJson(l)) : l \in ForecastLists}
AltResponses ==
    {ConnectionError, Http(200, NotJson), Http(200, CurrentJson),
     Http(401, WeatherJson(PyInt(401))), Http(429, WeatherJson(PyInt(429)))}

InitDisplay ==
    /\ CoreIdle
    /\ ApiIdle
    /\ CallsIdle
    /\ view = None
    /\ session_state = [main_city_data |-> city_info(Colombo),
                        comparison_cities_data |-> PyList(<<>>)]
    /\ rerun = FALSE
    /\ page = {}
    /\ compared = None
    /\ event = [type |-> "none"]

\* What the service may answer to a request for key k: nothing is asked of
\* it while the cache holds a valid entry
Answers(k, responses) ==
    IF CacheValid(cache, k, now) THEN {ConnectionError} ELSE responses

\* display_main_weather for the selected city: both fetches go through the
\* cache (lines 145-146), then the rest of the function runs
DisplayMainWeather ==
    \E cr \in Answers(WeatherKey("get_current_weather", session_state.main_city_data),
                      CurrentResponses),
       fr \in Answers(WeatherKey("get_forecast", session_state.main_city_data),
                      ForecastResponses),
       alt \in AltResponses :
        LET kc == WeatherKey("get_current_weather", session_state.main_city_data)
            c == st_cache_data(cache, kc, now, get_current_weather(cr))
            kf == WeatherKey("get_forecast", session_state.main_city_data)
            f == st_cache_data(c.cache, kf, now, get_forecast(fr))
        IN  /\ cache' = f.cache
            /\ api' = ApiRecord(kf, f, fr)
            /\ view' = display_main_weather(c.value, f.value, alt)
            /\ UNCHANGED <<now, ticks>>
            /\ UNCHANGED <<session_state, rerun, page, compared, event>>
            /\ UNCHANGED coreVars
            /\ UNCHANGED callVars

NextDisplay == DisplayMainWeather

SpecDisplay == InitDisplay /\ [][NextDisplay]_vars

-----------------------------------------------------------------------------
(* main.py: WeatherApp.__init__ and WeatherApp.run, one script run at a time *)

\* Config.test_api_key (config.py:14-22)
test_api_key(resp) == ~resp.error /\ resp.status = 200

\* (mutant: both keys set on every construction)
WeatherApp_init_always(ss) ==
    [main_city_data |-> PyNone, comparison_cities_data |-> PyList(<<>>)]

\* WeatherApp.__init__, lines 38-42
WeatherApp_init(ss) ==
    [main_city_data |->
         IF ss.main_city_data = Absent THEN PyNone ELSE ss.main_city_data,
     comparison_cities_data |->
         IF ss.comparison_cities_data = Absent THEN PyList(<<>>)
         ELSE ss.comparison_cities_data]

\* What the user did to start a script run: nothing, or one click
NoEvent == [type |-> "none"]
Click(type, c) == [type |-> type, city |-> city_info(c)]
Remove(i) == [type |-> "remove", index |-> i]
ClearAll == [type |-> "clear"]

\* list.pop(i), with i counted from 1
RemoveAt(l, i) == SubSeq(l, 1, i - 1) \o SubSeq(l, i + 1, Len(l))

\* (mutant: a city is in the list when the very same search result is)
city_exists_same_place(l, c) == \E j \in 1..Len(l) : l[j] = c

\* lines 88-92
city_exists(l, c) ==
    \E j \in 1..Len(l) : l[j].name = c.name /\ l[j].country = c.country

\* One more fetched city, in front of those fetched after it
fetched_more(value, rest) ==
    [cache |-> rest.cache,
     data |-> IF value = PyNone THEN rest.data
              ELSE <<process_current_weather(value).value>> \o rest.data]

\* lines 290-294: the current weather of each comparison city, through the
\* cache; up tells what the service answers for each key
RECURSIVE comparison_fetch(_, _, _, _)
comparison_fetch(cities, c, t, up) ==
    IF cities = <<>> THEN [cache |-> c, data |-> <<>>]
    ELSE LET k == WeatherKey("get_current_weather", Head(cities))
             r == st_cache_data(c, k, t, get_current_weather(up[k]))
         IN  fetched_more(r.value, comparison_fetch(Tail(cities), r.cache, t, up))

\* (mutant: the main city's weather goes behind the others)
main_last(o, fetched, r) ==
    [o EXCEPT !.cache = r.cache,
              !.compared =
                  PyList(IF r.value = PyNone THEN fetched.data
                         ELSE fetched.data
                              \o <<[process_current_weather(r.value).value
                                       EXCEPT !.city = Append(@, " (Main)")]>>)]

\* lines 304-307: the main city's weather, marked, goes in front
main_first(o, fetched, r) ==
    [o EXCEPT !.cache = r.cache,
              !.compared =
                  PyList(IF r.value = PyNone THEN fetched.data
                         ELSE <<[process_current_weather(r.value).value
                                    EXCEPT !.city = Append(@, " (Main)")]>>
                              \o fetched.data)]

\* lines 296-316
comparison_display(o, fetched, up) ==
    IF fetched.data = <<>> THEN [o EXCEPT !.cache = fetched.cache]
    ELSE IF o.session_state.main_city_data = PyNone
    THEN [o EXCEPT !.cache = fetched.cache, !.compared = PyList(fetched.data)]
    ELSE main_first(o, fetched,
             st_cache_data(fetched.cache,
                 WeatherKey("get_current_weather", o.session_state.main_city_data),
                 o.now,
                 get_current_weather(
                     up[WeatherKey("get_current_weather",
                                   o.session_state.main_city_data)])))

\* The sections of WeatherApp.run follow.  Each takes what the script has done
\* so far and gives what it has done after the section; a script that has
\* ended (return at line 58, or the exception st.rerun() raises) does no more.

\* (mutant: Clear All forgets the comparison list)
run_clear_main_only(o, ev) ==
    IF o.ended THEN o
    ELSE IF o.session_state.main_city_data # PyNone
            \/ o.session_state.comparison_cities_data.items # <<>>
    THEN IF ev.type = "clear"
         THEN [o EXCEPT !.session_state.main_city_data = PyNone,
                        !.rerun = TRUE,
                        !.ended = TRUE,
                        !.page = @ \cup {"clear"}]
         ELSE [o EXCEPT !.page = @ \cup {"clear"}]
    ELSE o

\* lines 106-115: the Clear All button, offered when there is anything to clear
run_clear(o, ev) ==
    IF o.ended THEN o
    ELSE IF o.session_state.main_city_data # PyNone
            \/ o.session_state.comparison_cities_data.items # <<>>
    THEN IF ev.type = "clear"
         THEN [o EXCEPT !.session_state = [main_city_data |-> PyNone,
                                           comparison_cities_data |-> PyList(<<>>)],
                        !.rerun = TRUE,
                        !.ended = TRUE,
                        !.page = @ \cup {"clear"}]
         ELSE [o EXCEPT !.page = @ \cup {"clear"}]
    ELSE o

\* lines 102-104 and display_comparison_section, lines 269-316: a click on a
\* Remove button pops the city and reruns
run_comparison(o, ev, up) ==
    IF o.ended \/ o.session_state.comparison_cities_data.items = <<>> THEN o
    ELSE IF ev.type = "remove"
    THEN [o EXCEPT !.session_state.comparison_cities_data =
                       PyList(RemoveAt(@.items, ev.index)),
                   !.rerun = TRUE,
                   !.ended = TRUE,
                   !.page = @ \cup {"remove"}]
    ELSE comparison_display([o EXCEPT !.page = @ \cup {"remove"}],
             comparison_fetch(o.session_state.comparison_cities_data.items,
                              o.cache, o.now, up),
             up)

\* lines 84-100: a city not yet in the list is appended, the script sleeps a
\* second and reruns; a city already there brings the warning
run_add(o, ev) ==
    IF o.ended THEN o
    ELSE IF ev.type = "comparison"
    THEN IF city_exists(o.session_state.comparison_cities_data.items, ev.city)
         THEN [o EXCEPT !.page = @ \cup {"search_comparison", "warning"}]
         ELSE [o EXCEPT !.session_state.comparison_cities_data =
                            PyList(Append(@.items, ev.city)),
                        !.now = @ + 1,
                        !.rerun = TRUE,
                        !.ended = TRUE,
                        !.page = @ \cup {"search_comparison"}]
    ELSE [o EXCEPT !.page = @ \cup {"search_comparison"}]

\* lines 137-138: both fetches of the main city, through the cache
main_fetch(o, c, kf, up) ==
    [current |-> c.value,
     forecast |-> st_cache_data(c.cache, kf, o.now, get_forecast(up[kf]))]

\* lines 71-78: the weather of the main city is fetched when one is selected
run_main_fetch(o, up) ==
    IF o.ended \/ o.session_state.main_city_data = PyNone THEN None
    ELSE main_fetch(o,
             st_cache_data(o.cache,
                 WeatherKey("get_current_weather", o.session_state.main_city_data),
                 o.now,
                 get_current_weather(
                     up[WeatherKey("get_current_weather",
                                   o.session_state.main_city_data)])),
             WeatherKey("get_forecast", o.session_state.main_city_data), up)

\* The forecast the service answers within a session, and what both fetches
\* then return for Colombo
SessionForecast ==
    ForecastJson(Tenths(<<0, 5, 10, 15, 20, 25, 30, 35, 40, 45, 50, 55>>))
SessionAnswers ==
    <<get_current_weather(Http(200, CurrentJsonOf(Colombo))).value,
      get_forecast(Http(200, SessionForecast)).value,
      ConnectionError>>

\* display_main_weather is a function of what was fetched: its value for the
\* answers of a session is worked out once
SessionView ==
    display_main_weather(SessionAnswers[1], SessionAnswers[2], SessionAnswers[3])
MainView(current_data, forecast_data, alt) ==
    IF <<current_data, forecast_data, alt>> = SessionAnswers THEN SessionView
    ELSE display_main_weather(current_data, forecast_data, alt)

\* lines 140-210 with what was fetched
run_main_display(o, fetched, alt) ==
    IF fetched = None THEN o
    ELSE [o EXCEPT !.cache = fetched.forecast.cache,
                   !.view = MainView(fetched.current, fetched.forecast.value, alt)]

\* lines 62-69: a click on a city of the main search selects it and reruns
run_select(o, ev) ==
    IF o.ended THEN o
    ELSE IF ev.type = "main"
    THEN [o EXCEPT !.session_state.main_city_data = ev.city,
                   !.rerun = TRUE,
                   !.ended = TRUE,
                   !.page = @ \cup {"search_main"}]
    ELSE [o EXCEPT !.page = @ \cup {"search_main"}]

\* (mutant: the return at line 58 is missing)
run_start_no_return(ss, c, t, key) ==
    [session_state |-> WeatherApp_init(ss), rerun |-> FALSE,
     ended |-> FALSE,
     page |-> IF test_api_key(key) THEN {} ELSE {"api_key_error"},
     cache |-> c, now |-> t, view |-> None, compared |-> None]

\* The top of a script run: app = WeatherApp() (lines 455-457, 30-42), then
\* lines 52-58 of run; key is the answer to the request of test_api_key
run_start(ss, c, t, key) ==
    [session_state |-> WeatherApp_init(ss), rerun |-> FALSE,
     ended |-> ~test_api_key(key),
     page |-> IF test_api_key(key) THEN {} ELSE {"api_key_error"},
     cache |-> c, now |-> t, view |-> None, compared |-> None]

-----------------------------------------------------------------------------
(* One browser session of the application *)

KeyResponses == {ConnectionError, Http(200, CurrentJson), Http(401, WeatherJson(PyInt(401)))}
WeatherKeys ==
    {WeatherKey(fn, c) : fn \in {"get_current_weather", "get_forecast"}, c \in Places}
PlaceOf(k) == CHOOSE c \in Places : Coord(c) = k.args

\* What the service answers during one script run: nothing for the places in
\* failing (the service is up or down for a whole run), a complete payload
\* for the others
ServiceAnswers(failing) ==
    [k \in WeatherKeys |->
        IF PlaceOf(k) \in failing THEN ConnectionError
        ELSE IF k.fn = "get_forecast"
        THEN Http(200, SessionForecast)
        ELSE Http(200, CurrentJsonOf(PlaceOf(k)))]

InitApp == CoreIdle /\ ApiIdle /\ UiIdle /\ CallsIdle

\* What a script run leaves behind.  The second of sleep (line 97) moves the
\* clock.
Outcome(o, ev) ==
    /\ o.now # now => ticks < MaxTicks
    /\ session_state' = o.session_state
    /\ rerun' = o.rerun
    /\ page' = o.page
    /\ view' = o.view
    /\ compared' = o.compared
    /\ event' = ev
    /\ cache' = o.cache
    /\ now' = o.now
    /\ ticks' = IF o.now # now THEN ticks + 1 ELSE ticks
    /\ UNCHANGED api
    /\ UNCHANGED coreVars
    /\ UNCHANGED callVars

\* The clicks the page offers: a button can be clicked when the last script
\* run put it on the page and did not end in st.rerun()
MainPlaces == {Colombo}
AppPlaces == {Colombo, Springfield_IL, Springfield_MO}
Events ==
    {NoEvent, ClearAll}
    \cup {Click("main", c) : c \in MainPlaces}
    \cup {Click("comparison", c) : c \in AppPlaces}
    \cup {Remove(i) : i \in 1..Cardinality(AppPlaces)}
Offered(ev) ==
    \/ ev.type = "none"
    \/ /\ ~rerun
       /\ \/ ev.type = "main" /\ "search_main" \in page
          \/ ev.type = "comparison" /\ "search_comparison" \in page
          \/ ev.type = "clear" /\ "clear" \in page
          \/ /\ ev.type = "remove"
             /\ "remove" \in page
             /\ ev.index <= Len(session_state.comparison_cities_data.items)

\* One script run: the first of a session, the one st.rerun() asks for, a
\* reload, or the one a click starts.  WeatherApp.run, section after section.
ScriptRun ==
    \E ev \in Events, key \in KeyResponses, failing \in {{}, Places} :
        /\ Offered(ev)
        /\ \E o1 \in {run_select(run_start(session_state, cache, now, key), ev)} :
           \E m \in {run_main_fetch(o1, ServiceAnswers(failing))} :
           \E o2 \in {run_main_display(o1, m, ConnectionError)} :
           \E o3 \in {run_add(o2, ev)} :
           \E o4 \in {run_comparison(o3, ev, ServiceAnswers(failing))} :
           \E o5 \in {run_clear(o4, ev)} :
               Outcome(o5, ev)

NextApp == ScriptRun

SpecApp == InitApp /\ [][NextApp]_vars

-----------------------------------------------------------------------------------------------------------------------------------------------------
(* Concurrent callers of the two static methods.  Both are static, neither
   reads or writes a module or class attribute: everything a call builds is a
   local of its own frame (analysis, X, y, model, future_X, predictions). *)

MaxCalls == 2
Callers == 1..MaxCalls

\* The objects the callers hold: two tables and two lists
TieFrame == <<[temperature |-> FromInt(0), pop |-> FromInt(10), weather_main |-> "Rain"],
              [temperature |-> FromInt(2), pop |-> FromInt(50), weather_main |-> "Clear"]>>
WarmFrame == <<[temperature |-> FromInt(0), pop |-> FromInt(90), weather_main |-> "Clouds"],
               [temperature |-> Rat(201, 100), pop |-> FromInt(50), weather_main |-> "Rain"],
               [temperature |-> Rat(201, 100), pop |-> FromInt(10), weather_main |-> "Rain"]>>
LineTemps == <<FromInt(0), FromInt(1), FromInt(3)>>
BentTemps == <<FromInt(3), FromInt(1), FromInt(0), FromInt(2)>>
NanTemps == <<FromInt(0), NaN, FromInt(1)>>
Heaps ==
    [df_a : {TieFrame}, df_b : {WarmFrame, <<>>},
     temps_a : {LineTemps}, temps_b : {BentTemps, NanTemps}]
Tables == {"df_a", "df_b"}
Lists == {"temps_a", "temps_b"}

\* A frame before its call starts
NoCall ==
    [fn |-> "none", ref |-> "none", hours_ahead |-> 0, pc |-> "idle",
     before |-> <<>>, overlapped |-> FALSE,
     analysis |-> None, X |-> None, y |-> None, model |-> None,
     predictions |-> None, result |-> None]

Running(c) == c.pc \notin {"idle", "returned", "raised"}
Finished(c) == c.pc \in {"returned", "raised"}

\* analysis[key] = value on a dict
Put(dict, key, value) ==
    IF dict = None THEN [k \in {key} |-> value]
    ELSE [k \in DOMAIN dict \cup {key} |-> IF k = key THEN value ELSE dict[k]]

\* (mutant: one dict for all calls, as a default argument or a class
\* attribute would be)
AnalysisOf_shared(cs, i) ==
    cs[CHOOSE j \in DOMAIN cs :
           /\ cs[j].fn = "analyze_weather_patterns"
           /\ \A k \in DOMAIN cs : cs[k].fn = "analyze_weather_patterns" => j <= k].analysis

\* the local analysis of call i (line 31 binds a new dict in each call)
AnalysisOf(cs, i) == cs[i].analysis

\* (mutant: one estimator for all calls)
ModelOf_shared(cs, i) ==
    cs[CHOOSE j \in DOMAIN cs :
           /\ cs[j].model # None
           /\ \A k \in DOMAIN cs : cs[k].model # None => j <= k].model

\* the local model of call i (line 17 constructs one in each call)
ModelOf(cs, i) == cs[i].model

\* (mutant: the list is emptied into the array)
np_array_drained(l) == [array |-> l, list |-> <<>>]

\* y = np.array(temperatures), line 15: a new array of the list's elements;
\* the list keeps them
np_array(l) == [array |-> l, list |-> l]

InitCalls ==
    /\ CoreIdle
    /\ ApiIdle
    /\ UiIdle
    /\ heap \in Heaps
    /\ calls = [i \in Callers |-> NoCall]

\* A caller invokes one of the two methods on one of its objects.  The table
\* or list goes by reference.
Call ==
    \E i \in Callers, ref \in Tables \cup Lists :
        /\ ~Running(calls[i])
        /\ calls' =
             [j \in Callers |->
                 IF j = i
                 THEN [NoCall EXCEPT
                          !.fn = IF ref \in Tables THEN "analyze_weather_patterns"
                                 ELSE "predict_temperature_trend",
                          !.ref = ref,
                          !.hours_ahead = IF ref \in Tables THEN 0 ELSE MaxHorizon,
                          !.pc = IF ref \in Tables THEN "l31" ELSE "l10",
                          !.before = heap[ref],
                          !.overlapped = \E k \in Callers \ {i} : Running(calls[k])]
                 ELSE IF Running(calls[j]) THEN [calls[j] EXCEPT !.overlapped = TRUE]
                 ELSE calls[j]]
        /\ UNCHANGED heap
        /\ UNCHANGED <<coreVars, apiVars, uiVars>>

\* The statement at c.pc of analyze_weather_patterns(d), in the frame c whose
\* local analysis is dict
analyze_statement(c, dict, d) ==
    CASE c.pc = "l31" ->
           \* lines 31-38; line 34 raises IndexError on an empty table
           IF Len(d) = 0 THEN [c EXCEPT !.pc = "raised"]
           ELSE [c EXCEPT !.pc = "l41",
                          !.analysis = Put(None, "temp_trend", temp_trend(d))]
      [] c.pc = "l41" ->
           \* lines 41-42
           [c EXCEPT !.pc = "l45",
                     !.analysis = Put(Put(dict, "rain_likelihood",
                                          Series_mean(Column(d, "pop"))),
                                      "max_rain_prob", Series_max(Column(d, "pop")))]
      [] c.pc = "l45" ->
           \* lines 45-46
           [c EXCEPT !.pc = "l48",
                     !.analysis = Put(Put(dict, "weather_types",
                                          Series_nunique(Column(d, "weather_main"))),
                                      "dominant_weather", dominant_weather(d))]
      [] OTHER ->
           \* line 48
           [c EXCEPT !.pc = "returned", !.result = dict]

\* The statement at c.pc of predict_temperature_trend(l, c.hours_ahead), in the
\* frame c whose local estimator is model
predict_statement(c, model, l) ==
    CASE c.pc = "l10" ->
           \* lines 10-11
           IF Len(l) < 3 THEN [c EXCEPT !.pc = "returned", !.result = NoPrediction]
           ELSE [c EXCEPT !.pc = "l14"]
      [] c.pc = "l14" ->
           \* lines 14-15
           [c EXCEPT !.pc = "l17",
                     !.X = np_arange(0, Len(l)),
                     !.y = np_array(l).array]
      [] c.pc = "l17" ->
           \* lines 17-18
           IF LinearRegression_fit(c.X, c.y).raised THEN [c EXCEPT !.pc = "l24"]
           ELSE [c EXCEPT !.pc = "l20", !.model = LinearRegression_fit(c.X, c.y)]
      [] c.pc = "l20" ->
           \* lines 20-21
           IF LinearRegression_predict(model,
                  np_arange(Len(l), Len(l) + c.hours_ahead)).raised
           THEN [c EXCEPT !.pc = "l24"]
           ELSE [c EXCEPT !.pc = "l22",
                          !.predictions =
                              LinearRegression_predict(model,
                                  np_arange(Len(l), Len(l) + c.hours_ahead)).values]
      [] c.pc = "l22" ->
           \* lines 22-23
           [c EXCEPT !.pc = "returned",
                     !.result = [predictions |-> c.predictions,
                                 confidence |-> LinearRegression_score(model, c.X, c.y)]]
      [] OTHER ->
           \* lines 24-26
           [c EXCEPT !.pc = "returned", !.result = NoPrediction]

\* The next statement of a call of analyze_weather_patterns
AnalyzeStep ==
    \E i \in Callers :
        /\ calls[i].fn = "analyze_weather_patterns"
        /\ Running(calls[i])
        /\ calls' = [calls EXCEPT ![i] = analyze_statement(calls[i], AnalysisOf(calls, i),
                                                            heap[calls[i].ref])]
        /\ UNCHANGED heap
        /\ UNCHANGED <<coreVars, apiVars, uiVars>>

\* The next statement of a call of predict_temperature_trend
PredictStep ==
    \E i \in Callers :
        /\ calls[i].fn = "predict_temperature_trend"
        /\ Running(calls[i])
        /\ calls' = [calls EXCEPT ![i] = predict_statement(calls[i], ModelOf(calls, i),
                                                            heap[calls[i].ref])]
        /\ heap' = IF calls[i].pc = "l14"
                   THEN [heap EXCEPT ![calls[i].ref] = np_array(@).list]
                   ELSE heap
        /\ UNCHANGED <<coreVars, apiVars, uiVars>>

NextCalls == Call \/ AnalyzeStep \/ PredictStep

SpecCalls == InitCalls /\ [][NextCalls]_vars

-----
(* Properties of analyze_weather_patterns, under SpecAnalyze *)

Delta == RSub(df[Len(df)].temperature, df[1].temperature)
Pops == Column(df, "pop")
Conds == Column(df, "weather_main")
FirstIndex(s, v) == CHOOSE i \in 1..Len(s) : s[i] = v /\ \A j \in 1..(i - 1) : s[j] # v
IsModal(s, v) ==
    /\ \E i \in 1..Len(s) : s[i] = v
    /\ \A j \in 1..Len(s) : Count(s, s[j]) <= Count(s, v)

\* C1: for every non-empty series temp_trend is decided by
\* delta = last temperature - first temperature alone: "warming" iff delta > 2,
\* "cooling" iff delta < -2, otherwise "stable"; delta = 2 and delta = -2 give
\* "stable", 2.01 gives "warming" and -2.01 gives "cooling".
C1_TempTrend ==
    apc = "returned" =>
        /\ analysis.temp_trend \in {"warming", "cooling", "stable"}
        /\ analysis.temp_trend = "warming" <=> RLt(FromInt(2), Delta)
        /\ analysis.temp_trend = "cooling" <=> RLt(Delta, FromInt(-2))
        /\ Delta \in {FromInt(2), FromInt(-2)} => analysis.temp_trend = "stable"
        /\ Delta = Rat(201, 100) => analysis.temp_trend = "warming"
        /\ Delta = Rat(-201, 100) => analysis.temp_trend = "cooling"

C1_Witness ==
    /\ apc = "returned"
    /\ Len(df) >= 2
    /\ Delta = FromInt(2)
    /\ analysis.temp_trend = "stable"

\* C2 as stated: dominant_weather has maximal count, and among the conditions
\* of maximal count it is the one encountered first in input order.
C2_FirstEncountered ==
    apc = "returned" =>
        /\ IsModal(Conds, analysis.dominant_weather)
        /\ \A v \in {Conds[i] : i \in 1..Len(df)} :
              IsModal(Conds, v) =>
                  FirstIndex(Conds, analysis.dominant_weather) <= FirstIndex(Conds, v)

\* C2 amended: dominant_weather has maximal count, and among the conditions of
\* maximal count it is the one that sorts first as a string, wherever it
\* stands in the input.
C2_SortedFirst ==
    apc = "returned" =>
        /\ IsModal(Conds, analysis.dominant_weather)
        /\ \A v \in {Conds[i] : i \in 1..Len(df)} :
              IsModal(Conds, v) => StrLe(analysis.dominant_weather, v)

C2_Witness ==
    /\ apc = "returned"
    /\ Conds = <<"Rain", "Clear">>
    /\ analysis.dominant_weather = "Clear"

\* C10: for every non-empty series rain_likelihood is the arithmetic mean of
\* the pop values and max_rain_prob is their maximum; pops 10, 50, 90 give
\* mean 50 and maximum 90.
C10_RainStats ==
    apc = "returned" =>
        /\ RMul(analysis.rain_likelihood, FromInt(Len(df))) = RSum(Pops)
        /\ \E i \in 1..Len(df) : Pops[i] = analysis.max_rain_prob
        /\ \A i \in 1..Len(df) : RLe(Pops[i], analysis.max_rain_prob)
        /\ Pops = <<FromInt(10), FromInt(50), FromInt(90)>> =>
              /\ analysis.rain_likelihood = FromInt(50)
              /\ analysis.max_rain_prob = FromInt(90)

C10_Witness ==
    /\ apc = "returned"
    /\ Pops = <<FromInt(10), FromInt(50), FromInt(90)>>
    /\ analysis.rain_likelihood = FromInt(50)
    /\ analysis.max_rain_prob = FromInt(90)

\* C11: for every non-empty series weather_types is the number of distinct
\* weather_main values occurring in it, between 1 and the series length.
C11_WeatherTypes ==
    apc = "returned" =>
        /\ analysis.weather_types = Len(Distinct(Conds))
        /\ analysis.weather_types >= 1
        /\ analysis.weather_types <= Len(df)
        /\ \A i, j \in 1..Len(df) :
              (i < j /\ Conds[i] = Conds[j]) => analysis.weather_types < Len(df)

C11_Witness ==
    /\ apc = "returned"
    /\ Conds = <<"Rain", "Clear", "Rain">>
    /\ analysis.weather_types = 2

-----------------------------------------------------------------------------
(* Properties of predict_temperature_trend, under SpecPredict *)

N == Len(temperatures)
Succeeded == ppc = "returned" /\ fitted /\ ~caught

\* The least-squares line of y against the indices 0 .. n-1 in closed form:
\* slope = (n Sxy - Sx Sy) / (n Sxx - Sx^2), intercept = (Sy - slope Sx) / n
IndexSum(n) == (n * (n - 1)) \div 2
IndexSqSum(n) == ((n - 1) * n * (2 * n - 1)) \div 6
OlsSlope(y) ==
    LET n == Len(y)
        sxy == RSum([i \in 1..n |-> RMul(FromInt(i - 1), y[i])])
    IN  RDiv(RSub(RMul(FromInt(n), sxy), RMul(FromInt(IndexSum(n)), RSum(y))),
             FromInt(n * IndexSqSum(n) - IndexSum(n) * IndexSum(n)))
OlsIntercept(y) ==
    RDiv(RSub(RSum(y), RMul(OlsSlope(y), FromInt(IndexSum(Len(y))))), FromInt(Len(y)))
OlsAt(y, x) == RAdd(OlsIntercept(y), RMul(OlsSlope(y), FromInt(x)))
Residual(y, i) == RSub(y[i], OlsAt(y, i - 1))
RSS(y) == RSum([i \in 1..Len(y) |-> RSq(Residual(y, i))])
TSS(y) == RSum([i \in 1..Len(y) |-> RSq(RSub(y[i], RMean(y)))])

IsProgression(t) ==
    /\ AllFinite(t)
    /\ \A i \in 2..Len(t) : RSub(t[i], t[i - 1]) = RSub(t[2], t[1])
IsConstant(t) ==
    /\ AllFinite(t)
    /\ \A i \in 1..Len(t) : t[i] = t[1]

\* C3: for every temperatures list of length 0, 1 or 2 and every horizon the
\* call returns the no-prediction result ([], 0.0) and model.fit is not called.
C3_InsufficientData ==
    (ppc # "ready" /\ N < 3) =>
        /\ ppc = "returned"
        /\ prediction.predictions = <<>>
        /\ prediction.confidence = FromInt(0)
        /\ ~fitted
        /\ ~caught

C3_Witness ==
    /\ ppc = "returned"
    /\ N = 2
    /\ hours_ahead = 24
    /\ prediction.predictions = <<>>
    /\ prediction.confidence = FromInt(0)
    /\ ~fitted

\* C4: with at least 3 samples, whenever the try block completes (the fit and
\* the prediction succeed) the returned list has exactly hours_ahead elements.
C4_HorizonLength ==
    (Succeeded /\ N >= 3) => Len(prediction.predictions) = hours_ahead

C4_Witness ==
    /\ Succeeded
    /\ N >= 3
    /\ hours_ahead = 2
    /\ Len(prediction.predictions) = 2

\* C5: no exception ever leaves predict_temperature_trend; with at least 3
\* samples a failure of fit, predict or score (a NaN sample, a horizon of 0 or
\* less) is caught and the result is ([], 0.0), as for insufficient data.
C5_NeverRaises ==
    /\ ppc # "raised"
    /\ (ppc = "returned" /\ N >= 3 /\ (caught \/ hours_ahead <= 0 \/ ~AllFinite(temperatures))) =>
          /\ caught
          /\ prediction.predictions = <<>>
          /\ prediction.confidence = FromInt(0)

C5_Witness ==
    /\ ppc = "returned"
    /\ N >= 3
    /\ AllFinite(temperatures)
    /\ hours_ahead = 0
    /\ caught
    /\ prediction = [predictions |-> <<>>, confidence |-> FromInt(0)]

\* C6: for n >= 3 samples and a horizon h >= 1, the k-th prediction (k = 0..h-1)
\* is intercept + slope * (n + k) for the ordinary-least-squares line of the
\* samples against the indices 0..n-1 (the line whose residuals sum to zero
\* and are orthogonal to the indices).
C6_LeastSquares ==
    (Succeeded /\ N >= 3 /\ hours_ahead >= 1) =>
        /\ RSum([i \in 1..N |-> Residual(temperatures, i)]) = FromInt(0)
        /\ RSum([i \in 1..N |-> RMul(FromInt(i - 1), Residual(temperatures, i))]) = FromInt(0)
        /\ Len(prediction.predictions) = hours_ahead
        /\ \A k \in 0..(hours_ahead - 1) :
              prediction.predictions[k + 1] = OlsAt(temperatures, N + k)

C6_Witness ==
    /\ Succeeded
    /\ temperatures = <<FromInt(0), FromInt(3), FromInt(1)>>
    /\ hours_ahead = 2
    /\ prediction.predictions = <<Rat(7, 3), Rat(17, 6)>>

C8_TrainingR2 ==
    (Succeeded /\ N >= 3) =>
        /\ RMul(prediction.confidence, TSS(temperatures)) =
              RSub(TSS(temperatures), RSS(temperatures))
        /\ RLe(prediction.confidence, FromInt(1))

C8_Witness ==
    /\ Succeeded
    /\ temperatures = <<FromInt(0), FromInt(3), FromInt(1)>>
    /\ prediction.confidence = Rat(3, 28)

\* C29: on a successful fit the confidence is at least 0 and at most 1: the
\* residual sum of squares of the fitted line over the input samples is not
\* greater than their total sum of squares.
C29_UnitInterval ==
    (Succeeded /\ N >= 3) =>
        /\ RLe(FromInt(0), prediction.confidence)
        /\ RLe(prediction.confidence, FromInt(1))
        /\ RLe(RSS(temperatures), TSS(temperatures))

C29_Witness ==
    /\ Succeeded
    /\ temperatures = <<FromInt(1), FromInt(0), FromInt(1)>>
    /\ prediction.confidence = FromInt(0)
    /\ RSS(temperatures) = TSS(temperatures)
    /\ TSS(temperatures) # FromInt(0)

-----------------------------------------------------------------------------
(* Properties of the fetch wrappers, under SpecApi *)

SuccessCod(fn) == IF fn = "get_current_weather" THEN PyInt(200) ELSE PyStr(200)
Window(fn) == IF fn = "search_cities" THEN 3600 ELSE 300

\* the request, the status check or the JSON decoding raises, or the body is
\* not of the expected shape, or its code field is not the success value
UpstreamFailed(resp, fn) ==
    \/ resp.error
    \/ resp.status # 200
    \/ resp.body.kind = "notjson"
    \/ fn # "search_cities" /\ resp.body.kind # "dict"
    \/ fn # "search_cities" /\ resp.body.kind = "dict" /\ resp.body.cod # SuccessCod(fn)
    \/ fn = "search_cities" /\ resp.body.kind # "list"
    \/ fn = "search_cities" /\ resp.body.kind = "list"
          /\ \E i \in 1..Len(resp.body.items) : "name" \notin DOMAIN resp.body.items[i]

\* C16: no exception leaves a fetch wrapper; get_current_weather and
\* get_forecast return None and search_cities returns [] whenever the request,
\* the status check or the decoding raises or the code field is not the
\* success value (200 for current weather, "200" for the forecast), and the
\* decoded data otherwise.
C16_NoEscape ==
    api # None =>
        /\ ~api.raised
        /\ api.requested =>
              IF UpstreamFailed(api.response, api.key.fn)
              THEN api.result = IF api.key.fn = "search_cities"
                                THEN PyList(<<>>) ELSE PyNone
              ELSE IF api.key.fn = "search_cities"
              THEN api.result.kind = "list"
                   /\ Len(api.result.items) = Len(api.response.body.items)
              ELSE api.result = api.response.body

C16_Witness ==
    /\ api # None
    /\ api.key.fn = "get_current_weather"
    /\ api.requested
    /\ api.response = Http(200, WeatherJson(PyStr(200)))
    /\ api.result = PyNone
    /\ ~api.raised

\* C17: a call whose entry is still inside its cache window (300 s for the
\* weather and the forecast, 3600 s for the city search) makes no upstream
\* request, returns the value the entry's one request stored and leaves the
\* cache as it is; a call with no entry or an expired one makes a new request
\* and stores its value with the current time.
C17_OncePerWindow ==
    [][(now' = now /\ <<api, cache>>' # <<api, cache>>) =>
          LET k == api'.key
          IN  IF cache[k] # None /\ now - cache[k].stored < Window(k.fn)
              THEN /\ ~api'.requested
                   /\ api'.result = cache[k].value
                   /\ cache' = cache
              ELSE /\ api'.requested
                   /\ cache' = [cache EXCEPT ![k] = [value |-> api'.result,
                                                     stored |-> now]]]_vars

C17_Witness ==
    /\ api # None
    /\ api.key.fn = "search_cities"
    /\ ~api.requested
    /\ now = 3599
    /\ cache[api.key].stored = 0
    /\ api.result = cache[api.key].value
    /\ Len(api.result.items) = 2

\* C30: the None that get_current_weather or get_forecast returns after a
\* failed request is stored like any result: until the entry is CACHE_DURATION
\* seconds old a call with the same coordinates returns None without a new
\* request, and from then on a call makes a new request.
C30_FailureCached ==
    [][(now' = now /\ <<api, cache>>' # <<api, cache>>
            /\ api'.key.fn # "search_cities") =>
          LET k == api'.key
          IN  /\ (api'.requested /\ UpstreamFailed(api'.response, k.fn)) =>
                    /\ api'.result = PyNone
                    /\ cache'[k] = [value |-> PyNone, stored |-> now]
              /\ (cache[k] # None /\ cache[k].value = PyNone) =>
                    IF now - cache[k].stored < CACHE_DURATION
                    THEN ~api'.requested /\ api'.result = PyNone /\ cache' = cache
                    ELSE api'.requested]_vars

C30_Witness ==
    /\ api # None
    /\ api.key.fn = "get_forecast"
    /\ ~api.requested
    /\ api.result = PyNone
    /\ cache[api.key] = [value |-> PyNone, stored |-> 0]
    /\ now = CACHE_DURATION - 1

-----------------------------------------------------------------------------
(* Properties of the main display, under SpecDisplay *)

FallbackBranches == {"fallback_shown", "fallback_status", "fallback_failed"}
Entries == view.forecast_data.list
Table == view.forecast_df
Processed ==
    view # None /\ view.processed /\ view.error # "process_forecast_data"

\* C14: on a forecast without entries analyze_weather_patterns is called and
\* raises instead of returning a summary; display_main_weather catches the
\* exception and takes its fallback branch, and nothing leaves the function.
C14_EmptyForecast ==
    (Processed /\ Len(Entries) = 0) =>
        /\ Len(Table) = 0
        /\ view.analysed
        /\ view.weather_analysis = None
        /\ view.error = "analyze_weather_patterns"
        /\ view.branch \in FallbackBranches
        /\ ~view.escaped
        /\ ~view.rendered /\ ~view.predicted

C14_Witness ==
    /\ Processed
    /\ Entries = <<>>
    /\ view.analysed
    /\ view.error = "analyze_weather_patterns"
    /\ view.branch = "fallback_shown"

\* C19: process_forecast_data makes one row per entry of data['list'], in the
\* order of the entries, and the row's pop is 100 times the entry's pop
\* fraction, or 0 when the entry has no pop field.
C19_PopPercent ==
    Processed =>
        /\ Len(Table) = Len(Entries)
        /\ \A i \in 1..Len(Entries) :
              /\ Table[i].datetime = 24 * Entries[i].dt_txt.day + Entries[i].dt_txt.hour
              /\ Table[i].weather_main = Entries[i].weather_main
              /\ IF "pop" \in DOMAIN Entries[i]
                 THEN Table[i].pop.n * Entries[i].pop.d
                          = 100 * Entries[i].pop.n * Table[i].pop.d
                 ELSE Table[i].pop.n = 0 /\ Table[i].pop.d = 1

C19_Witness ==
    /\ Processed
    /\ Len(Entries) = 3
    /\ "pop" \in DOMAIN Entries[1] /\ Table[1].pop = FromInt(50)
    /\ "pop" \notin DOMAIN Entries[2] /\ Table[2].pop = FromInt(0)
    /\ Table[1].datetime < Table[2].datetime /\ Table[2].datetime < Table[3].datetime

\* C20: every non-empty prediction is shown with exactly one label: high
\* when the confidence exceeds 0.8, moderate when it exceeds 0.6 but not 0.8,
\* low otherwise.
C20_OneLabel ==
    (view # None /\ view.predicted /\ view.prediction.predictions # <<>>) =>
        LET c == view.prediction.confidence
            label == view.prediction.label
        IN  /\ label \in {"high", "moderate", "low"}
            /\ label = "high" <=> 5 * c.n > 4 * c.d
            /\ label = "moderate" <=> (5 * c.n > 3 * c.d /\ 5 * c.n <= 4 * c.d)
            /\ label = "low" <=> 5 * c.n <= 3 * c.d

\* C21: the forecaster is fed the temperatures of the first 12 rows of the
\* forecast table (of all rows when there are fewer), in table order, and is
\* asked for 8 values; asked without a horizon it gives 24.
C21_FirstTwelve ==
    (view # None /\ view.predicted) =>
        LET fed == view.prediction.fed
            asked == predict_temperature_trend(fed, DisplayHoursAhead).result
            default == predict_temperature_trend(fed, DefaultHoursAhead).result
        IN  /\ Len(fed) = IF Len(Table) < 12 THEN Len(Table) ELSE 12
            /\ \A i \in 1..Len(fed) : fed[i] = Table[i].temperature
            /\ view.prediction.predictions = asked.predictions
            /\ view.prediction.confidence = asked.confidence
            /\ Len(fed) >= 3 => /\ Len(asked.predictions) = 8
                                /\ Len(default.predictions) = 24

C21_Witness ==
    /\ view # None /\ view.predicted
    /\ Len(Table) = 13
    /\ Len(view.prediction.fed) = 12
    /\ view.prediction.fed[12] = Table[12].temperature
    /\ Table[13].temperature # Table[12].temperature
    /\ Len(view.prediction.predictions) = 8

\* C25: when either fetch returned None, display_main_weather returns before
\* process_forecast_data, analyze_weather_patterns or the forecaster is
\* called, shows nothing, and does not enter the fallback branch.
C25_FetchFirst ==
    (view # None /\ (view.current_data = PyNone \/ view.forecast_data = PyNone)) =>
        /\ ~view.processed /\ ~view.analysed /\ ~view.predicted /\ ~view.rendered
        /\ view.error = ""
        /\ view.branch = IF view.current_data = PyNone THEN "no_current"
                         ELSE "no_forecast"
        /\ view.branch \notin FallbackBranches
        /\ view.prediction = NotPredicted

C25_Witness ==
    /\ view # None
    /\ view.current_data # PyNone
    /\ view.forecast_data = PyNone
    /\ view.branch = "no_forecast"
    /\ ~view.processed

\* C26: on a forecast table of at least 3 rows display_temperature_prediction
\* does not raise, and the time it counts the prediction times from is the
\* time of the last sample fed to the forecaster.
C26_BaseExists ==
    (view # None /\ view.predicted /\ Len(Table) >= 3) =>
        /\ ~view.prediction.raised
        /\ view.prediction.prediction_times # <<>>
        /\ view.prediction.prediction_times[1]
               = Table[Len(view.prediction.fed)].datetime + FirstOffset

\* C27: with samples 3 hours apart the k-th of the 8 predictions is plotted
\* 3*k hours after the last sample used, so that predictions are as far apart
\* as samples.
C27_SampleSpacing ==
    (view # None /\ view.predicted /\ view.prediction.prediction_times # <<>>) =>
        \A k \in 1..Len(view.prediction.prediction_times) :
            view.prediction.prediction_times[k]
                = Table[Len(view.prediction.fed)].datetime + 3 * k

-----------------------------------------------------------------------------
(* Properties of the session, under SpecApp *)

Main == IF session_state.main_city_data = Absent THEN PyNone
        ELSE session_state.main_city_data
Compared == IF session_state.comparison_cities_data = Absent THEN PyList(<<>>)
            ELSE session_state.comparison_cities_data

\* C18: a script run writes None and [] only into keys the session does not
\* have yet; a run with no user action leaves both keys as they were; the
\* main city changes only by a selection or Clear All, the comparison list
\* only by an addition, a removal or Clear All.
C18_SessionPersists ==
    [][/\ session_state'.main_city_data # Main =>
              \/ event'.type = "main" /\ session_state'.main_city_data = event'.city
              \/ event'.type = "clear" /\ session_state'.main_city_data = PyNone
       /\ session_state'.comparison_cities_data # Compared =>
              \/ /\ event'.type = "comparison"
                 /\ session_state'.comparison_cities_data
                        = PyList(Append(Compared.items, event'.city))
              \/ /\ event'.type = "remove"
                 /\ session_state'.comparison_cities_data
                        = PyList(RemoveAt(Compared.items, event'.index))
              \/ /\ event'.type = "clear"
                 /\ session_state'.comparison_cities_data = PyList(<<>>)
       /\ event'.type = "none" =>
              /\ session_state'.main_city_data = Main
              /\ session_state'.comparison_cities_data = Compared]_vars

C18_Witness ==
    /\ event = NoEvent
    /\ ~rerun
    /\ Main = city_info(Colombo)
    /\ Len(Compared.items) = 2
    /\ view # None
    /\ compared # None

\* No two cities of the list have the same name and country
NoDup(l) ==
    \A i, j \in 1..Len(l) :
        (l[i].name = l[j].name /\ l[i].country = l[j].country) => i = j

\* C22: whatever the user does, comparison_cities_data never holds two
\* cities with the same (name, country); a script run in which the user
\* selects, in the comparison search, a city whose name and country are
\* already in the list leaves the list as it was, shows the warning and does
\* not rerun.
C22_NoDuplicate ==
    [][/\ NoDup(session_state'.comparison_cities_data.items)
       /\ (/\ event'.type = "comparison"
           /\ "search_comparison" \in page'
           /\ city_exists(Compared.items, event'.city)) =>
              /\ session_state'.comparison_cities_data = Compared
              /\ "warning" \in page'
              /\ ~rerun']_vars

\* The other Springfield is refused while one is in a list of two
C22_Witness ==
    /\ event = Click("comparison", Springfield_MO)
    /\ "warning" \in page
    /\ Compared.items = <<city_info(Colombo), city_info(Springfield_IL)>>

\* Something is selected: a main city or at least one comparison city
AnythingSelected(ss) ==
    ss.main_city_data # PyNone \/ ss.comparison_cities_data.items # <<>>

\* A script run in which the body of the Clear All button ran
Cleared(ev, pg) == ev.type = "clear" /\ "clear" \in pg

\* The script run after Clear All shows no weather, no comparison and no
\* Clear All button
AfterClearAll ==
    (Cleared(event, page) /\ rerun) =>
        /\ view' = None
        /\ compared' = None
        /\ "clear" \notin page'
        /\ ~AnythingSelected(session_state')

\* Clear All empties both keys in the run it is clicked in, and asks for a
\* rerun
ClearAllResets ==
    Cleared(event', page') =>
        /\ session_state'.main_city_data = PyNone
        /\ session_state'.comparison_cities_data = PyList(<<>>)
        /\ rerun'
        /\ AnythingSelected([main_city_data |-> Main,
                             comparison_cities_data |-> Compared])

\* C23, as stated: Clear All resets both keys in one step and reruns; a page
\* offers the button exactly when a main city or a comparison city is
\* selected; the run after Clear All shows no section and no button.
C23_AsStated ==
    [][/\ ClearAllResets
       /\ ~rerun' => ("clear" \in page' <=> AnythingSelected(session_state'))
       /\ AfterClearAll]_vars

\* C23, amended: the button is offered exactly when something is selected in
\* the script runs that get as far as line 107, those that pass the API key
\* test and are not ended by the st.rerun() of a selection, an addition or a
\* removal; a run stopped by the key test offers no button whatever is
\* selected.  The rest is as stated.
C23_ClearAll ==
    [][/\ ClearAllResets
       /\ (~rerun' /\ "api_key_error" \notin page') =>
              ("clear" \in page' <=> AnythingSelected(session_state'))
       /\ ("api_key_error" \in page') => "clear" \notin page'
       /\ AfterClearAll]_vars

\* Clear All was clicked on a page that showed the weather of the main city
\* and a comparison
C23_Witness ==
    /\ Cleared(event, page)
    /\ rerun
    /\ ~AnythingSelected(session_state)
    /\ view # None
    /\ compared # None

\* What get_current_weather last returned for a city, as the cache holds it
\* (no entry expires within a session of the model)
CurrentOf(c) == cache[WeatherKey("get_current_weather", c)]
Fetched(c) == CurrentOf(c) # None /\ CurrentOf(c).value # PyNone
WeatherOf(c) == process_current_weather(CurrentOf(c).value).value

\* The positions of the comparison list whose city's weather was fetched
FetchedAt == {i \in 1..Len(Compared.items) : Fetched(Compared.items[i])}
MainShown == Main # PyNone /\ Fetched(Main)

\* C28: in a script run that gets to the comparison, the comparison display
\* is built exactly when the weather of at least one comparison city was
\* fetched; it then lists the fetched comparison cities in the order of the
\* list, leaving out those whose fetch returned None, after the main city
\* with " (Main)" added to its name when one is selected and its fetch
\* succeeds.
C28_ComparisonList ==
    (~rerun /\ "api_key_error" \notin page) =>
        LET first == IF MainShown THEN 1 ELSE 0
        IN  /\ compared = None <=> FetchedAt = {}
            /\ compared # None =>
                   /\ Len(compared.items) = first + Cardinality(FetchedAt)
                   /\ MainShown =>
                          compared.items[1]
                              = [WeatherOf(Main) EXCEPT
                                    !.city = WeatherOf(Main).city \o " (Main)"]
                   /\ \A i \in FetchedAt :
                          compared.items[first + Cardinality({j \in FetchedAt : j <= i})]
                              = WeatherOf(Compared.items[i])

\* Colombo is the main city and the first of two comparison cities; the fetch
\* for the second returned None
C28_Witness ==
    /\ ~rerun
    /\ Main = city_info(Colombo)
    /\ Compared.items = <<city_info(Colombo), city_info(Springfield_IL)>>
    /\ CurrentOf(Springfield_IL) # None
    /\ CurrentOf(Springfield_IL).value = PyNone
    /\ compared # None
    /\ Len(compared.items) = 2
    /\ compared.items[1].city = "Colombo (Main)"
    /\ compared.items[2].city = "Colombo"

\* C24: a script run in which Config.test_api_key() returns False shows the
\* API key messages and nothing else: no search box, no weather of the main
\* city, no comparison; it asks the service for no weather, does not rerun,
\* and leaves main_city_data and comparison_cities_data as they were, whatever
\* the user clicked.
C24_ReturnsFirst ==
    [][("api_key_error" \in page') =>
           /\ page' = {"api_key_error"}
           /\ view' = None
           /\ compared' = None
           /\ cache' = cache
           /\ now' = now
           /\ ~rerun'
           /\ session_state'.main_city_data = Main
           /\ session_state'.comparison_cities_data = Compared]_vars

\* A click that would have added a city is lost to the failed key test
C24_Witness ==
    /\ "api_key_error" \in page
    /\ event.type = "comparison"
    /\ Main # PyNone
    /\ Compared.items # <<>>
    /\ ~city_exists(Compared.items, event.city)

-----------------------------------------------------------------------------
(* Properties of concurrent and repeated calls, under SpecCalls *)

\* What the call of frame c gives when nothing else runs: the whole function
\* on the argument as it was when the call started
Alone(c) ==
    IF c.fn = "analyze_weather_patterns"
    THEN IF Len(c.before) = 0 THEN [pc |-> "raised", result |-> None]
         ELSE [pc |-> "returned", result |-> analyze_weather_patterns(c.before)]
    ELSE [pc |-> "returned",
          result |-> predict_temperature_trend(c.before, c.hours_ahead).result]

SameOutcome(a, b) == a.pc = b.pc /\ a.result = b.result

\* C12: two finished calls of the same function on equal inputs have equal
\* outcomes, whatever calls ran before, between or beside them; on a tie the
\* dominant condition is the same in both.
C12_Deterministic ==
    \A i, j \in DOMAIN calls :
        ( /\ Finished(calls[i]) /\ Finished(calls[j])
          /\ calls[i].fn = calls[j].fn
          /\ calls[i].before = calls[j].before
          /\ calls[i].hours_ahead = calls[j].hours_ahead )
        => SameOutcome(calls[i], calls[j])

C12_Witness ==
    /\ calls # <<>>
    /\ Finished(calls[1]) /\ Finished(calls[2])
    /\ calls[1].fn = "analyze_weather_patterns" /\ calls[2].fn = "analyze_weather_patterns"
    /\ calls[1].before = TieFrame /\ calls[2].before = TieFrame
    /\ calls[1].result.dominant_weather = "Clear"
    /\ calls[2].result.dominant_weather = "Clear"
    /\ calls[1].overlapped /\ ~calls[2].overlapped

\* C13: when a call has returned or raised, the table or list it was given
\* holds what it held when the call started.
C13_InputsKept ==
    \A i \in DOMAIN calls :
        Finished(calls[i]) => heap[calls[i].ref] = calls[i].before

C13_Witness ==
    /\ calls # <<>>
    /\ calls[1].fn = "predict_temperature_trend" /\ calls[1].pc = "returned"
    /\ calls[1].before = NanTemps /\ calls[1].result = NoPrediction
    /\ calls[2].fn = "analyze_weather_patterns" /\ calls[2].pc = "returned"
    /\ calls[2].before = WarmFrame
    /\ heap.temps_b = NanTemps /\ heap.df_b = WarmFrame

\* C15: every finished call, however its statements were interleaved with
\* those of other calls, has the outcome it has when run alone.
C15_AsAlone ==
    \A i \in DOMAIN calls :
        Finished(calls[i]) => SameOutcome(calls[i], Alone(calls[i]))

C15_Witness ==
    /\ calls # <<>>
    /\ calls[1].pc = "returned" /\ calls[2].pc = "returned"
    /\ calls[1].overlapped /\ calls[2].overlapped
    /\ calls[1].ref = "temps_a" /\ calls[2].ref = "temps_b"
    /\ calls[2].before = BentTemps
    /\ calls[1].result # calls[2].result

====
